---------------------------- MODULE Spec2Model ----------------------------
(***************************************************************************)
(* Model of the edutools quiz converter: the text-to-record parser of      *)
(* parsing/wayground_question_parser.py (split_into_blocks and             *)
(* parse_question_block with their three regular expressions) and the two  *)
(* exporters of excel/.                                                    *)
(*                                                                         *)
(* A line is a sequence of one-character strings, so that strip(), the     *)
(* regular expressions and startswith() are computed character by          *)
(* character as Python computes them.                                      *)
(***************************************************************************)
EXTENDS Integers, Sequences, FiniteSets, TLC

(***************************************************************************)
(* Characters                                                              *)
(***************************************************************************)

\* The characters of the model, in code-point order (Python compares strings
\* by code point).
Chars ==
  << " ", ")", ".", "1", "2", ":", "?",
     "A", "B", "C", "D", "E", "N", "R", "S", "W", "[", "]",
     "a", "b", "c", "d", "e", "n", "r", "s", "w", "x", "y" >>

ord(ch) == CHOOSE k \in 1..Len(Chars) : Chars[k] = ch

Whitespace == {" "}
Digits == {"1", "2"}

\* str.lower() on one character
lower_char(ch) ==
  CASE ch = "A" -> "a" [] ch = "B" -> "b" [] ch = "C" -> "c" [] ch = "D" -> "d"
    [] ch = "E" -> "e" [] ch = "N" -> "n" [] ch = "R" -> "r" [] ch = "S" -> "s"
    [] ch = "W" -> "w" [] OTHER -> ch

\* str.upper() on one character
upper_char(ch) ==
  CASE ch = "a" -> "A" [] ch = "b" -> "B" [] ch = "c" -> "C" [] ch = "d" -> "D"
    [] ch = "e" -> "E" [] ch = "n" -> "N" [] ch = "r" -> "R" [] ch = "s" -> "S"
    [] ch = "w" -> "W" [] OTHER -> ch

lower(s) == [k \in 1..Len(s) |-> lower_char(s[k])]

\* The first index >= p of s whose character is not in set, Len(s)+1 if none:
\* where a greedy  set*  of a regular expression stops.
skip(s, p, set) ==
  IF \E k \in p..Len(s) : s[k] \notin set
    THEN CHOOSE k \in p..Len(s) : s[k] \notin set /\ \A j \in p..(k-1) : s[j] \in set
    ELSE Len(s) + 1

\* str.strip()
strip(s) ==
  LET first == skip(s, 1, Whitespace)
      last  == IF first > Len(s) THEN 0
               ELSE CHOOSE k \in 1..Len(s) :
                      s[k] \notin Whitespace /\ \A j \in (k+1)..Len(s) : s[j] \in Whitespace
  IN  IF first > Len(s) THEN << >> ELSE SubSeq(s, first, last)

\* str.startswith()
startswith(s, prefix) ==
  Len(s) >= Len(prefix) /\ SubSeq(s, 1, Len(prefix)) = prefix

answer_colon == << "a", "n", "s", "w", "e", "r", ":" >>

(***************************************************************************)
(* The three regular expressions                                           *)
(***************************************************************************)

\* QUESTION_NUM_PREFIX.sub('', text):  ^\s*\d+\s*[.)]\s*  removed when it matches
QUESTION_NUM_PREFIX_sub(text) ==
  LET p == skip(text, 1, Whitespace)
      d == skip(text, p, Digits)
      q == skip(text, d, Whitespace)
      r == skip(text, q + 1, Whitespace)
  IN  IF d > p /\ q <= Len(text) /\ text[q] \in {".", ")"}
        THEN SubSeq(text, r, Len(text))
        ELSE text

\* ANSWER_LINE_PATTERN.match(line):  ^\s*([A-Da-d])[\.\)]\s*(.*)
\* group(1) is the letter, group(2) the text after the marker.
ANSWER_LINE_PATTERN(line) ==
  LET p == skip(line, 1, Whitespace)
      ok == /\ p + 1 <= Len(line)
            /\ line[p] \in {"A", "B", "C", "D", "a", "b", "c", "d"}
            /\ line[p + 1] \in {".", ")"}
  IN  IF ok
        THEN [matched |-> TRUE, group1 |-> line[p],
              group2 |-> SubSeq(line, skip(line, p + 2, Whitespace), Len(line))]
        ELSE [matched |-> FALSE, group1 |-> "", group2 |-> << >>]

\* ANSWER_DECL_PATTERN.match(line):  ^\s*ANSWER\s*:\s*([A-Da-d])  (IGNORECASE)
ANSWER_DECL_PATTERN(line) ==
  LET p == skip(line, 1, Whitespace)
      q == skip(line, p + 6, Whitespace)
      r == skip(line, q + 1, Whitespace)
      ok == /\ p + 5 <= Len(line)
            /\ lower(SubSeq(line, p, p + 5)) = << "a", "n", "s", "w", "e", "r" >>
            /\ q <= Len(line) /\ line[q] = ":"
            /\ r <= Len(line)
            /\ line[r] \in {"A", "B", "C", "D", "a", "b", "c", "d"}
  IN  IF ok THEN [matched |-> TRUE, group1 |-> line[r]]
            ELSE [matched |-> FALSE, group1 |-> ""]


(***************************************************************************)
(* split_into_blocks                                                       *)
(***************************************************************************)

\* has_answer_declaration without the lower(): "ANSWER:" is not seen
has_answer_declaration_cased(block) ==
  \E k \in 1..Len(block) : startswith(strip(block[k]), answer_colon)

\* has_answer_declaration(block): some line, stripped and lower-cased,
\* starts with "answer:"
has_answer_declaration(block) ==
  \E k \in 1..Len(block) : startswith(lower(strip(block[k])), answer_colon)

\* is_new_question_start without the test that the current block holds a
\* declaration
is_new_question_start_undeclared(current_block, stripped_line) ==
  /\ current_block # << >>
  /\ stripped_line[1] \notin {"A", "B", "C", "D", "a", "b", "c"}
  /\ ~ startswith(lower(stripped_line), answer_colon)

\* The condition of the heuristic new-question trigger, for a non-empty
\* stripped line.
is_new_question_start(current_block, stripped_line) ==
  /\ current_block # << >>
  /\ stripped_line[1] \notin {"A", "B", "C", "D", "a", "b", "c"}
  /\ ~ startswith(lower(stripped_line), answer_colon)
  /\ has_answer_declaration(current_block)

\* blank_line_closes without the test for a declaration: every empty line
\* closes a non-empty block
blank_line_closes_always(current_block) == current_block # << >>

\* The condition under which an empty line closes the current block.
blank_line_closes(current_block) ==
  current_block # << >> /\ has_answer_declaration(current_block)

(***************************************************************************)
(* parse_question_block                                                    *)
(***************************************************************************)

Letters == {"A", "B", "C", "D"}

\* ' '.join(lines)
RECURSIVE join(_)
join(ls) ==
  IF ls = << >> THEN << >>
  ELSE IF Len(ls) = 1 THEN ls[1]
  ELSE ls[1] \o << " " >> \o join(Tail(ls))

\* The first loop: collects the question lines, from 1-based index i on.
\* Returns the index where it stopped and the lines collected.
RECURSIVE collect_question_lines(_, _, _)
collect_question_lines(block, i, question_lines) ==
  IF i > Len(block) THEN [i |-> i, question_lines |-> question_lines]
  ELSE LET line == strip(block[i]) IN
    IF ANSWER_LINE_PATTERN(line).matched \/ ANSWER_DECL_PATTERN(line).matched
      THEN [i |-> i, question_lines |-> question_lines]
    ELSE IF line = << >> /\ question_lines # << >>
      THEN [i |-> i, question_lines |-> question_lines]
    ELSE collect_question_lines(block, i + 1,
           IF line # << >> THEN Append(question_lines, line) ELSE question_lines)

\* question_text = QUESTION_NUM_PREFIX.sub('', ' '.join(question_lines)).strip()
normalize_question(question_lines) ==
  strip(QUESTION_NUM_PREFIX_sub(join(question_lines)))

\* answers[letter] = text.strip(), when a letter is being collected and its
\* text is not empty ("" is no letter).
save_answer(answers, current_answer_letter, current_answer_text) ==
  IF current_answer_letter # "" /\ current_answer_text # << >>
    THEN [l \in (DOMAIN answers) \cup {current_answer_letter} |->
            IF l = current_answer_letter THEN strip(current_answer_text)
            ELSE answers[l]]
    ELSE answers

\* The test of the continuation branch, for a non-empty stripped line that
\* is no answer line.
is_continuation(current_answer_letter, line) ==
  /\ current_answer_letter # ""
  /\ line # << >>
  /\ line[1] \notin {"A", "B", "C", "D", "a", "b", "c"}
  /\ ~ startswith(lower(line), answer_colon)

\* append_continuation without the separating space
append_continuation_unspaced(current_answer_text, line) ==
  current_answer_text \o line

\* current_answer_text += " " + line
append_continuation(current_answer_text, line) ==
  current_answer_text \o << " " >> \o line

\* The second loop: collects the answers from index i on.
RECURSIVE extract_answers(_, _, _, _, _)
extract_answers(block, i, answers, current_answer_letter, current_answer_text) ==
  IF i > Len(block)
    THEN [i |-> i,
          answers |-> save_answer(answers, current_answer_letter, current_answer_text)]
  ELSE LET line == strip(block[i])
           answer_match == ANSWER_LINE_PATTERN(line)
       IN
    IF line = << >>
      THEN extract_answers(block, i + 1, answers,
                           current_answer_letter, current_answer_text)
    ELSE IF answer_match.matched
      THEN extract_answers(block, i + 1,
             save_answer(answers, current_answer_letter, current_answer_text),
             upper_char(answer_match.group1), strip(answer_match.group2))
    ELSE IF is_continuation(current_answer_letter, line)
      THEN extract_answers(block, i + 1, answers, current_answer_letter,
                           append_continuation(current_answer_text, line))
    ELSE [i |-> i,
          answers |-> save_answer(answers, current_answer_letter, current_answer_text)]

\* set(answers.keys()) != {'A','B','C','D'} is the failure test
answers_complete(answers) == DOMAIN answers = Letters

\* missing_letters with the operands of the difference swapped
missing_letters_swapped(answers) == (DOMAIN answers) \ Letters

\* missing = set('ABCD') - set(answers.keys())
missing_letters(answers) == Letters \ DOMAIN answers

\* extra = set(answers.keys()) - set('ABCD')
extra_letters(answers) == (DOMAIN answers) \ Letters

\* The declaration lookup: the upper-cased letter of the first line from
\* index i on that ANSWER_DECL_PATTERN matches, "" (None) when there is none.
find_declaration(block, i) ==
  IF \E j \in i..Len(block) : ANSWER_DECL_PATTERN(block[j]).matched
    THEN LET j == CHOOSE j \in i..Len(block) :
                    /\ ANSWER_DECL_PATTERN(block[j]).matched
                    /\ \A h \in i..(j-1) : ~ ANSWER_DECL_PATTERN(block[h]).matched
         IN upper_char(ANSWER_DECL_PATTERN(block[j]).group1)
    ELSE ""

\* correct_index counted from 0
correct_index_from_zero(correct_letter) == ord(correct_letter) - ord("A")

\* correct_index = ord(correct_letter) - ord('A') + 1
correct_index(correct_letter) == ord(correct_letter) - ord("A") + 1

\* What parse_question_block returns or reports: a record (row is the list
\* of 7 fields) or None with the warning issued (kind).
Failure(kind, missing, extra) ==
  [kind |-> kind, row |-> << >>, missing |-> missing, extra |-> extra]

Parsed(row) ==
  [kind |-> "record", row |-> row, missing |-> {}, extra |-> {}]

parse_question_block(block) ==
  IF block = << >> THEN Failure("EmptyBlock", {}, {})
  ELSE
    LET q == collect_question_lines(block, 1, << >>) IN
    IF q.question_lines = << >> THEN Failure("EmptyQuestion", {}, {})
    ELSE
      LET question_text == normalize_question(q.question_lines)
          a == extract_answers(block, q.i, << >>, "", << >>)
          answers == a.answers
      IN
      IF ~ answers_complete(answers)
        THEN Failure("AnswerSetMismatch", missing_letters(answers),
                     extra_letters(answers))
      ELSE
        LET correct_letter == find_declaration(block, a.i) IN
        IF correct_letter = "" THEN Failure("MissingDeclaration", {}, {})
        ELSE IF correct_letter \notin Letters
          THEN Failure("InvalidDeclaredLetter", {}, {})
        ELSE Parsed(<< question_text, "multiple choice",
                       answers["A"], answers["B"], answers["C"], answers["D"],
                       correct_index(correct_letter) >>)


(***************************************************************************)
(* The uploads: question units as a teacher writes them                    *)
(***************************************************************************)

\* Bounds of the model
MaxUnits == 2
MaxExports == 2

blank_line == << >>

\* The text of the answer of a letter: "xa", "xb", "xc", "xd"
answer_text(letter) == << "x", lower_char(letter) >>

\* An answer line: the letter (lower-cased in a lower-case style), the
\* marker, a space and the text; the marker alone when the text is left out.
answer_line(letter, style, with_text) ==
  << IF style.lowercase THEN lower_char(letter) ELSE letter, style.marker >>
    \o (IF with_text THEN << " " >> \o answer_text(letter) ELSE << >>)

Styles == [marker : {".", ")"}, lowercase : BOOLEAN]

\* The answer lines of the letters of order, in that order, with the lines of
\* extra put after the answer line of letter after ("" for nowhere).
RECURSIVE answer_lines(_, _, _, _, _)
answer_lines(order, style, no_text, after, extra) ==
  IF order = << >> THEN << >>
  ELSE << answer_line(Head(order), style, Head(order) \notin no_text) >>
       \o (IF Head(order) = after THEN extra ELSE << >>)
       \o answer_lines(Tail(order), style, no_text, after, extra)

\* A unit: question lines, answer lines, declaration lines.
unit(question, order, style, no_text, after, extra, declaration) ==
  question \o answer_lines(order, style, no_text, after, extra) \o declaration

\* Question lines
Q_plain      == << << "W", "?" >> >>
Q_dot        == << << "1", ".", " ", "S", "x", "?" >> >>
Q_paren      == << << "2", ")", " ", "R", "x", "?" >> >>
Q_number     == << << "1", "." >> >>
Q_bracket    == << << "W", "?", " ", "[", "x", "]" >> >>
Q_brackets   == << << "[", "y", "]", " ", "N", "?", " ", "[", "x", "]" >> >>
Q_upper_A    == << << "A", "x", "?" >> >>
Q_upper_D    == << << "D", "x", "?" >> >>
Q_lower_c    == << << "c", "x", "?" >> >>
Q_lower_d    == << << "d", "x", "?" >> >>
Q_two_lines  == << << "W", "x" >>, << "B", "x", "?" >> >>
Q_then_blank == << << "W", "?" >>, blank_line >>
Q_indented   == << << " ", "1", "2", ".", " ", "E", "x", "?" >> >>
Q_none       == << >>

Questions ==
  { Q_plain, Q_dot, Q_paren, Q_number, Q_bracket, Q_brackets, Q_upper_A,
    Q_upper_D, Q_lower_c, Q_lower_d, Q_two_lines, Q_then_blank, Q_indented,
    Q_none }

\* Declaration lines
D_A       == << << "A", "N", "S", "W", "E", "R", ":", " ", "A" >> >>
D_lower_b == << << "a", "n", "s", "w", "e", "r", ":", " ", "b" >> >>
D_tight_C == << << "A", "N", "S", "W", "E", "R", ":", "C" >> >>
D_mixed_D == << << "A", "n", "s", "w", "e", "r", ":", " ", "D" >> >>
D_E       == << << "A", "N", "S", "W", "E", "R", ":", " ", "E" >> >>
D_spaced  == << << "A", "N", "S", "W", "E", "R", " ", ":", " ", "A" >> >>
D_none    == << >>

Declarations == { D_A, D_lower_b, D_tight_C, D_mixed_D, D_E, D_spaced, D_none }

\* Lines put after an answer line
X_plain   == << << "N", "x" >> >>
X_upper_A == << << "A", "x" >> >>
X_upper_D == << << "D", "x" >> >>
X_lower_c == << << "c", "x" >> >>
X_lower_d == << << "d", "x" >> >>
X_digit   == << << "1", "x" >> >>
X_fifth   == << << "E", ".", " ", "y" >> >>
X_fifth_p == << << "e", ")", " ", "y" >> >>

Extras ==
  { X_plain, X_upper_A, X_upper_D, X_lower_c, X_lower_d, X_digit, X_fifth,
    X_fifth_p }

ABCD == << "A", "B", "C", "D" >>
DCBA == << "D", "C", "B", "A" >>

\* The letters of ABCD that are in present, in order
RECURSIVE select(_, _)
select(order, present) ==
  IF order = << >> THEN << >>
  ELSE (IF Head(order) \in present THEN << Head(order) >> ELSE << >>)
       \o select(Tail(order), present)

upper_dot == [marker |-> ".", lowercase |-> FALSE]

\* Single units in which the answers and the declaration vary
AnswerUnits ==
  { unit(q, select(ABCD, present), style, {}, "", << >>, d) :
      q \in {Q_plain, Q_dot, Q_none}, present \in SUBSET Letters,
      style \in Styles, d \in Declarations }

\* Single units in which the question varies
QuestionUnits ==
  { unit(q, order, style, {}, "", << >>, d) :
      q \in Questions, order \in {ABCD, DCBA},
      style \in {upper_dot, [marker |-> ")", lowercase |-> TRUE]},
      d \in {D_A, D_mixed_D} }

\* Single units with a line after one of the answer lines, or with an answer
\* line without text
ExtraUnits ==
  { unit(Q_plain, select(ABCD, present), style, no_text, after, extra, d) :
      present \in {Letters, {"A", "B", "C"}},
      style \in {upper_dot, [marker |-> ")", lowercase |-> TRUE]},
      no_text \in {{}, {"A"}, {"D"}},
      after \in Letters, extra \in Extras, d \in {D_lower_b, D_none} }

\* Single units whose answer lines differ in marker and letter case
MixedUnits ==
  { q \o << answer_line("A", s1, TRUE), answer_line("B", s2, TRUE),
            answer_line("C", s2, TRUE), answer_line("D", s1, TRUE) >> \o d :
      q \in {Q_plain, Q_paren}, s1 \in Styles, s2 \in Styles,
      d \in {D_lower_b, D_tight_C} }

\* The units of the uploads of several units
U_dns     == unit(Q_plain, ABCD, upper_dot, {}, "", << >>, D_A)
U_ip      == unit(Q_dot, ABCD, [marker |-> ")", lowercase |-> FALSE], {}, "", << >>, D_lower_b)
U_lower   == unit(Q_paren, DCBA, [marker |-> ".", lowercase |-> TRUE], {}, "", << >>, D_tight_C)
U_upper_A == unit(Q_upper_A, ABCD, upper_dot, {}, "", << >>, D_mixed_D)
U_lower_c == unit(Q_lower_c, ABCD, upper_dot, {}, "", << >>, D_lower_b)
U_lower_d == unit(Q_lower_d, ABCD, upper_dot, {}, "", << >>, D_tight_C)
U_two     == unit(Q_two_lines, ABCD, upper_dot, {}, "", << >>, D_mixed_D)
U_no_decl == unit(Q_dot, ABCD, upper_dot, {}, "", << >>, D_none)
U_spaced  == unit(Q_plain, ABCD, upper_dot, {}, "", << >>, D_spaced)

SeveralUnits ==
  { U_dns, U_ip, U_lower, U_upper_A, U_lower_c, U_lower_d, U_two, U_no_decl,
    U_spaced }

\* The lines of an upload: its units, with a blank line after each unit when
\* the units are separated.
RECURSIVE lines_of(_, _)
lines_of(units, separated) ==
  IF units = << >> THEN << >>
  ELSE Head(units) \o (IF separated THEN << blank_line >> ELSE << >>)
       \o lines_of(Tail(units), separated)

\* The uploads of the model
Sources ==
  [units : { << u >> : u \in AnswerUnits \cup QuestionUnits \cup ExtraUnits
                             \cup MixedUnits },
   separated : {TRUE}]
  \cup
  [units : UNION { [1..n -> SeveralUnits] : n \in 0..MaxUnits },
   separated : BOOLEAN]


(***************************************************************************)
(* The exporters                                                           *)
(***************************************************************************)

\* The value generate_quizizz_excel appends to every row
TimeInSeconds == 60

\* The 'Points' of every row of generate_gform_excel
Points == 1

\* a <= b for Python strings
str_le(a, b) ==
  \/ (Len(a) <= Len(b) /\ SubSeq(b, 1, Len(a)) = a)
  \/ \E k \in 1..Len(a) :
       /\ k <= Len(b)
       /\ SubSeq(a, 1, k - 1) = SubSeq(b, 1, k - 1)
       /\ ord(a[k]) < ord(b[k])

\* df.sort_values(column 1, ascending=True): the orders of rows that ascend
\* by their first field (rows with equal keys may come in either order).
sort_values(rows) ==
  { [k \in 1..Len(rows) |-> rows[p[k]]] : p \in
      { p \in Permutations(1..Len(rows)) :
          \A k \in 1..(Len(rows) - 1) : str_le(rows[p[k]][1], rows[p[k + 1]][1]) } }

\* for row in data: row.append(60)
append_time(data) == [k \in 1..Len(data) |-> Append(data[k], TimeInSeconds)]

\* pd.DataFrame(data, columns=[8 names]) raises ValueError unless every row
\* has 8 fields.
quizizz_columns_fit(data) == \A k \in 1..Len(data) : Len(data[k]) = 8

\* One row of generate_gform_excel: the answer is the text of the choice
\* that question[6] indexes.
gform_row(question) ==
  << question[1], question[2], question[3], question[4], question[5],
     question[6],
     << question[3], question[4], question[5], question[6] >>[question[7]],
     Points >>

(***************************************************************************)
(* The application entry point (app.py)                                    *)
(***************************************************************************)

\* The line feed of a text file, and a byte that occurs in no UTF-8 text
line_feed == "\n"
invalid_byte == "0xFF"

\* The bytes of a text file with the given lines; every character of the
\* model is ASCII, so a character is one byte.
RECURSIVE write_lines(_)
write_lines(ls) ==
  IF ls = << >> THEN << >>
  ELSE IF Len(ls) = 1 THEN ls[1]
  ELSE ls[1] \o << line_feed >> \o write_lines(Tail(ls))

\* The files a user uploads: the uploads of the model written with or
\* without a final line feed, and the same files ending in an invalid byte.
Uploads ==
  LET texts == { write_lines(lines_of(s.units, s.separated)) \o final :
                   s \in Sources, final \in { << >>, << line_feed >> } }
  IN  texts \cup { t \o << invalid_byte >> : t \in texts }

\* bytes.decode('utf-8'): raises UnicodeDecodeError on an invalid byte
decode(bytes) ==
  IF \E k \in 1..Len(bytes) : bytes[k] = invalid_byte
    THEN [raised |-> TRUE, text |-> << >>]
    ELSE [raised |-> FALSE, text |-> bytes]

\* str.split('\n'): the pieces between the line feeds, at least one
RECURSIVE split_line_feed(_)
split_line_feed(text) ==
  IF \E k \in 1..Len(text) : text[k] = line_feed
    THEN LET p == CHOOSE k \in 1..Len(text) :
                    /\ text[k] = line_feed
                    /\ \A j \in 1..(k - 1) : text[j] # line_feed
         IN  << SubSeq(text, 1, p - 1) >>
             \o split_line_feed(SubSeq(text, p + 1, Len(text)))
    ELSE << text >>

\* read_quiz: what it returns and whether st.error was called.  In the try
\* branch content is computed and the function ends without a return
\* statement (the return of content is commented out), so it returns None;
\* the except branch reports the error and returns None.
read_quiz(file_content) ==
  LET decoded == decode(file_content)
  IN  IF decoded.raised
        THEN [is_None |-> TRUE, lines |-> << >>, error |-> TRUE]
        ELSE LET content == split_line_feed(decoded.text)
             IN  [is_None |-> TRUE, lines |-> << >>, error |-> FALSE]

\* What read_quiz has returned before it is called
not_called == [is_None |-> TRUE, lines |-> << >>, error |-> FALSE]

\* The state of app.py when the parsing module runs on its own
app_idle == [phase |-> "idle", upload |-> << >>, returned |-> not_called]

(***************************************************************************)
(* The program                                                             *)
(***************************************************************************)

VARIABLES
  source,         \* the upload: its units and whether blank lines separate them
  lines,          \* the lines read from the upload
  pc,             \* "split" while split_into_blocks runs, then "parse"
  i,              \* split_into_blocks: the index of the next line (1-based)
  current_block,  \* split_into_blocks: current_block
  blocks,         \* split_into_blocks: blocks
  outcomes,       \* what parse_question_block gave for blocks[1..Len(outcomes)]
  data,           \* the list of records handed to the exporters
  sheet,          \* what the last exporter call gave
  exports,        \* the number of exporter calls made
  app             \* app.py: the phase of main, the upload, what read_quiz gave

vars ==
  << source, lines, pc, i, current_block, blocks, outcomes, data, sheet, exports,
     app >>

no_sheet == [kind |-> "none", rows |-> << >>]

Init ==
  /\ source \in Sources
  /\ lines = lines_of(source.units, source.separated)
  /\ pc = "split"
  /\ i = 1
  /\ current_block = << >>
  /\ blocks = << >>
  /\ outcomes = << >>
  /\ data = << >>
  /\ sheet = no_sheet
  /\ exports = 0
  /\ app = app_idle

\* One pass of the loop of split_into_blocks on a non-empty line
SplitNonEmptyLine ==
  /\ pc = "split"
  /\ i <= Len(lines)
  /\ strip(lines[i]) # << >>
  /\ IF is_new_question_start(current_block, strip(lines[i]))
       THEN /\ blocks' = Append(blocks, current_block)
            /\ current_block' = << lines[i] >>
       ELSE /\ blocks' = blocks
            /\ current_block' = Append(current_block, lines[i])
  /\ i' = i + 1
  /\ UNCHANGED << source, lines, pc, outcomes, data, sheet, exports, app >>

\* One pass of the loop of split_into_blocks on an empty line
SplitEmptyLine ==
  /\ pc = "split"
  /\ i <= Len(lines)
  /\ strip(lines[i]) = << >>
  /\ IF blank_line_closes(current_block)
       THEN /\ blocks' = Append(blocks, current_block)
            /\ current_block' = << >>
       ELSE UNCHANGED << blocks, current_block >>
  /\ i' = i + 1
  /\ UNCHANGED << source, lines, pc, outcomes, data, sheet, exports, app >>

\* SplitReturn that adds the last block only when it has a declaration
SplitReturn_declared_only ==
  /\ pc = "split"
  /\ i > Len(lines)
  /\ blocks' = IF has_answer_declaration(current_block)
                 THEN Append(blocks, current_block)
               ELSE blocks
  /\ current_block' = << >>
  /\ pc' = "parse"
  /\ UNCHANGED << source, lines, i, outcomes, data, sheet, exports, app >>

\* The end of split_into_blocks: the last block is added if it has content
SplitReturn ==
  /\ pc = "split"
  /\ i > Len(lines)
  /\ blocks' = IF current_block # << >> THEN Append(blocks, current_block)
               ELSE blocks
  /\ current_block' = << >>
  /\ pc' = "parse"
  /\ UNCHANGED << source, lines, i, outcomes, data, sheet, exports, app >>

\* parse_question_block on the next block; a record joins the list of
\* records, a failure is only reported.
ParseBlock ==
  /\ pc = "parse"
  /\ Len(outcomes) < Len(blocks)
  /\ LET outcome == parse_question_block(blocks[Len(outcomes) + 1]) IN
       /\ outcomes' = Append(outcomes, outcome)
       /\ data' = IF outcome.kind = "record" THEN Append(data, outcome.row)
                  ELSE data
  /\ UNCHANGED << source, lines, pc, i, current_block, blocks, sheet, exports, app >>

all_parsed == pc = "parse" /\ Len(outcomes) = Len(blocks)

\* generate_quizizz_excel(data, base_filename)
GenerateQuizizz ==
  /\ all_parsed
  /\ data # << >>
  /\ exports < MaxExports
  /\ data' = append_time(data)
  /\ IF quizizz_columns_fit(append_time(data))
       THEN \E rows \in sort_values(append_time(data)) :
              sheet' = [kind |-> "QUIZIZZ", rows |-> rows]
       ELSE sheet' = [kind |-> "ValueError", rows |-> << >>]
  /\ exports' = exports + 1
  /\ UNCHANGED << source, lines, pc, i, current_block, blocks, outcomes, app >>

\* generate_gform_excel(data, base_filename)
GenerateGform ==
  /\ all_parsed
  /\ data # << >>
  /\ exports < MaxExports
  /\ \E rows \in sort_values([k \in 1..Len(data) |-> gform_row(data[k])]) :
       sheet' = [kind |-> "GFORM", rows |-> rows]
  /\ exports' = exports + 1
  /\ UNCHANGED << source, lines, pc, i, current_block, blocks, outcomes, data, app >>

Next ==
  \/ SplitNonEmptyLine
  \/ SplitEmptyLine
  \/ SplitReturn
  \/ ParseBlock
  \/ GenerateQuizizz
  \/ GenerateGform

Spec == Init /\ [][Next]_vars

\* main of app.py is run with an uploaded file; the parsing module is not
\* called by app.py.
InitApp ==
  /\ source = [units |-> << >>, separated |-> FALSE]
  /\ lines = << >>
  /\ pc = "app"
  /\ i = 1
  /\ current_block = << >>
  /\ blocks = << >>
  /\ outcomes = << >>
  /\ data = << >>
  /\ sheet = no_sheet
  /\ exports = 0
  /\ \E upload \in Uploads :
       app = [phase |-> "uploaded", upload |-> upload, returned |-> not_called]

\* main: lines = read_quiz(uploaded_file)
MainReadQuiz ==
  /\ app.phase = "uploaded"
  /\ app' = [app EXCEPT !.phase = "read", !.returned = read_quiz(app.upload)]
  /\ UNCHANGED << source, lines, pc, i, current_block, blocks, outcomes, data,
                  sheet, exports >>

\* main: if lines is None it returns; otherwise it goes on to format the
\* questions of lines and to show the processing summary.
MainCheckLines ==
  /\ app.phase = "read"
  /\ app' = [app EXCEPT !.phase = IF app.returned.is_None THEN "returned"
                                  ELSE "format"]
  /\ UNCHANGED << source, lines, pc, i, current_block, blocks, outcomes, data,
                  sheet, exports >>

NextApp ==
  \/ MainReadQuiz
  \/ MainCheckLines

SpecApp == InitApp /\ [][NextApp]_vars


(***************************************************************************)
(* The shapes the properties speak of, read off the lines themselves       *)
(***************************************************************************)

Markers == {".", ")"}
AnswerLetterChars == {"A", "B", "C", "D", "a", "b", "c", "d"}
OtherLetterChars == {"E", "N", "R", "S", "W", "e", "n", "r", "s", "w", "x", "y"}

\* The line starts with a letter of A-D (either case) and a marker
MarkerStart(l) ==
  LET s == strip(l) IN
  Len(s) >= 2 /\ s[1] \in AnswerLetterChars /\ s[2] \in Markers

\* The text after the marker of an answer line
TextOf(l) == LET s == strip(l) IN strip(SubSeq(s, 3, Len(s)))

\* An answer line of letter, with a text
AnswerLineOf(l, letter) ==
  LET s == strip(l) IN
  /\ Len(s) >= 2
  /\ s[1] \in AnswerLetterChars
  /\ upper_char(s[1]) = letter
  /\ s[2] \in Markers
  /\ strip(SubSeq(s, 3, Len(s))) # << >>

\* The line starts with ANSWER: in any letter case
AnswerColonStart(l) == startswith(lower(strip(l)), answer_colon)

\* What follows ANSWER:
DeclaredText(l) == LET s == strip(l) IN strip(SubSeq(s, 8, Len(s)))

\* An ANSWER: line that declares one of A-D, in any letter case
DeclarationLine(l) ==
  LET t == DeclaredText(l) IN
  AnswerColonStart(l) /\ Len(t) = 1 /\ upper_char(t[1]) \in Letters

DeclaredLetter(l) == upper_char(DeclaredText(l)[1])

\* A line of text: not blank, no answer marker, not the word ANSWER
TextLine(l) ==
  LET s == strip(l) IN
  /\ s # << >>
  /\ ~ (Len(s) >= 2 /\ s[1] \in AnswerLetterChars /\ s[2] \in Markers)
  /\ ~ startswith(lower(s), << "a", "n", "s", "w", "e", "r" >>)

\* A well-formed question unit: one or more question lines, one answer line
\* for each of A, B, C, D, then an ANSWER: line
WellFormedUnit(u) ==
  /\ Len(u) >= 6
  /\ DeclarationLine(u[Len(u)])
  /\ \A j \in 1..(Len(u) - 5) : TextLine(u[j])
  /\ \A letter \in Letters :
       \E j \in (Len(u) - 4)..(Len(u) - 1) : AnswerLineOf(u[j], letter)

\* The text of the answer line of letter in a block that has one
OptionOf(u, letter) ==
  TextOf(u[CHOOSE j \in 1..Len(u) : AnswerLineOf(u[j], letter)])

\* The 1-based position of a letter in "ABCD"
PositionOf(letter) ==
  CASE letter = "A" -> 1 [] letter = "B" -> 2 [] letter = "C" -> 3
    [] letter = "D" -> 4

\* The field of a record that holds the option of a letter
OptionField(letter) == PositionOf(letter) + 2

\* u without its j-th line
Without(u, j) == SubSeq(u, 1, j - 1) \o SubSeq(u, j + 1, Len(u))

\* The letters of A-D that have an answer line in the block
LettersWithLine(u) ==
  { upper_char(strip(u[j])[1]) : j \in { j \in 1..Len(u) : MarkerStart(u[j]) } }

(***************************************************************************)
(* C1                                                                      *)
(***************************************************************************)

\* C1: every record parse_question_block returns is fully valid: a non-empty
\* question text, the type "multiple choice", four non-empty options and a
\* correct index in 1..4.
C1_RecordsFullyValid ==
  \A k \in 1..Len(outcomes) :
    outcomes[k].kind = "record" =>
      /\ outcomes[k].row[1] # << >>
      /\ outcomes[k].row[2] = "multiple choice"
      /\ \A f \in 3..6 : outcomes[k].row[f] # << >>
      /\ outcomes[k].row[7] \in 1..4

(***************************************************************************)
(* C2                                                                      *)
(***************************************************************************)

BlankSeparatedWellFormed ==
  /\ source.separated
  /\ \A k \in 1..Len(source.units) : WellFormedUnit(source.units[k])

\* C2: on an upload of k well-formed units separated by blank lines,
\* split_into_blocks returns the k units as its blocks and
\* parse_question_block gives k records and no failure, the i-th record
\* holding the question, the options and the declared letter of the i-th unit.
C2_BlankSeparatedEndToEnd ==
  (all_parsed /\ BlankSeparatedWellFormed) =>
    /\ blocks = source.units
    /\ Len(outcomes) = Len(source.units)
    /\ Len(data) = Len(source.units)
    /\ \A k \in 1..Len(source.units) :
         LET u == source.units[k] IN
         /\ outcomes[k].kind = "record"
         /\ (exports = 0 => data[k] = outcomes[k].row)
         /\ outcomes[k].row[1] = normalize_question(SubSeq(u, 1, Len(u) - 5))
         /\ \A letter \in Letters :
              outcomes[k].row[OptionField(letter)] = OptionOf(u, letter)
         /\ outcomes[k].row[7] = PositionOf(DeclaredLetter(u[Len(u)]))

C2_Witness ==
  /\ all_parsed
  /\ BlankSeparatedWellFormed
  /\ Len(source.units) >= 2
  /\ source.units[1] # source.units[2]
  /\ Len(blocks) = Len(source.units)
  /\ \A k \in 1..Len(outcomes) : outcomes[k].kind = "record"

(***************************************************************************)
(* C3                                                                      *)
(***************************************************************************)

\* C3: for every valid block (question, four lettered answers with '.' or
\* ')' markers in any letter case, a declaration in any letter case) the
\* record's correctIndex is the 1-based position of the declared letter in
\* "ABCD".
C3_CorrectIndexIsPosition ==
  \A k \in 1..Len(outcomes) :
    WellFormedUnit(blocks[k]) =>
      /\ outcomes[k].kind = "record"
      /\ outcomes[k].row[7] = PositionOf(DeclaredLetter(blocks[k][Len(blocks[k])]))

C3_Witness ==
  \E k \in 1..Len(outcomes) :
    /\ WellFormedUnit(blocks[k])
    /\ \E j \in 1..Len(blocks[k]) : strip(blocks[k][j])[1] = "d"
    /\ \E j \in 1..Len(blocks[k]) : strip(blocks[k][j])[2] = ")"
    /\ DeclaredText(blocks[k][Len(blocks[k])]) = << "b" >>
    /\ outcomes[k].kind = "record"
    /\ outcomes[k].row[7] = 2

(***************************************************************************)
(* C4                                                                      *)
(***************************************************************************)

\* A line "<letter outside A-D><. or )> text"
OutsideMarker(l) ==
  Len(strip(l)) >= 2 /\ strip(l)[1] \in OtherLetterChars /\ strip(l)[2] \in Markers

\* Such a line met during answer extraction: after an answer line and before
\* any ANSWER: line
FifthOptionAt(u, j) ==
  /\ j \in 2..Len(u)
  /\ OutsideMarker(u[j])
  /\ \E h \in 1..(j - 1) : MarkerStart(u[h])
  /\ \A h \in 1..(j - 1) : ~ AnswerColonStart(u[h])

\* C4: a block that holds, among its answers, a marker line with a letter
\* outside A-D gives a failure, never a record.
C4_FifthOptionRejected ==
  \A k \in 1..Len(outcomes) :
    (\E j \in 1..Len(blocks[k]) : FifthOptionAt(blocks[k], j)) =>
      outcomes[k].kind # "record"

(***************************************************************************)
(* C5                                                                      *)
(***************************************************************************)

\* A question and the four answers, then the lines of rest
FourAnswersThen(u, rest) ==
  /\ Len(u) >= 5 + Len(rest)
  /\ SubSeq(u, Len(u) - Len(rest) + 1, Len(u)) = rest
  /\ \A j \in 1..(Len(u) - Len(rest) - 4) : TextLine(u[j])
  /\ \A letter \in Letters :
       \E j \in (Len(u) - Len(rest) - 3)..(Len(u) - Len(rest)) :
         AnswerLineOf(u[j], letter)

\* An ANSWER: line that declares a letter outside A-D
InvalidDeclarationLine(l) ==
  /\ AnswerColonStart(l)
  /\ Len(DeclaredText(l)) = 1
  /\ DeclaredText(l)[1] \in OtherLetterChars

\* C5: with four valid answers, a block without an ANSWER: line fails with
\* "missing declaration", and a block whose ANSWER: line declares a letter
\* outside A-D fails with "invalid declared letter".
C5_DeclarationFailuresDistinguished ==
  \A k \in 1..Len(outcomes) :
    /\ FourAnswersThen(blocks[k], << >>) =>
         outcomes[k].kind = "MissingDeclaration"
    /\ \A l \in {blocks[k][Len(blocks[k])]} :
         (InvalidDeclarationLine(l) /\ FourAnswersThen(blocks[k], << l >>)) =>
           outcomes[k].kind = "InvalidDeclaredLetter"

(***************************************************************************)
(* C6                                                                      *)
(***************************************************************************)

\* Line j of u follows an answer line, is not empty, starts with no answer
\* marker and not with ANSWER:, and u is a well-formed unit but for it.
ContinuationAt(u, j) ==
  /\ j \in 2..Len(u)
  /\ strip(u[j]) # << >>
  /\ ~ MarkerStart(u[j])
  /\ ~ AnswerColonStart(u[j])
  /\ \E letter \in Letters : AnswerLineOf(u[j - 1], letter)
  /\ WellFormedUnit(Without(u, j))

\* The record of u has line j appended, after one space, to the answer that
\* line j-1 starts, and the other answers and the declaration of u.
ContinuationParsed(u, j, outcome) ==
  /\ outcome.kind = "record"
  /\ \A letter \in Letters :
       outcome.row[OptionField(letter)] =
         IF AnswerLineOf(u[j - 1], letter)
           THEN TextOf(u[j - 1]) \o << " " >> \o strip(u[j])
           ELSE OptionOf(u, letter)
  /\ outcome.row[7] = PositionOf(DeclaredLetter(u[Len(u)]))

\* C6 as stated: every such line is appended to the current answer, whatever
\* its first character is.
C6_ContinuationAnyFirstCharacter ==
  \A k \in 1..Len(outcomes) : \A j \in 1..Len(blocks[k]) :
    ContinuationAt(blocks[k], j) =>
      ContinuationParsed(blocks[k], j, outcomes[k])

\* C6 as amended: every such line whose first character is none of
\* A, B, C, D, a, b, c is appended to the current answer.
C6_ContinuationAppended ==
  \A k \in 1..Len(outcomes) : \A j \in 1..Len(blocks[k]) :
    (/\ ContinuationAt(blocks[k], j)
     /\ strip(blocks[k][j])[1] \notin {"A", "B", "C", "D", "a", "b", "c"}) =>
      ContinuationParsed(blocks[k], j, outcomes[k])

C6_Witness ==
  \E k \in 1..Len(outcomes) :
    /\ ContinuationAt(blocks[k], 3)
    /\ blocks[k][2] = << "A", ".", " ", "x", "a" >>
    /\ blocks[k][3] = << "N", "x" >>
    /\ outcomes[k].kind = "record"
    /\ outcomes[k].row[3] = << "x", "a", " ", "N", "x" >>

(***************************************************************************)
(* C7                                                                      *)
(***************************************************************************)

\* The text holds a bracketed annotation [ ... ]
HasBracketed(text) ==
  \E a \in 1..Len(text) : \E b \in (a + 1)..Len(text) :
    text[a] = "[" /\ text[b] = "]"

\* C7: the question text of a record holds no bracketed annotation.
C7_NoBracketedAnnotation ==
  \A k \in 1..Len(outcomes) :
    outcomes[k].kind = "record" => ~ HasBracketed(outcomes[k].row[1])

(***************************************************************************)
(* C8                                                                      *)
(***************************************************************************)

\* C8 as stated: a record only if every letter has an answer line; a block
\* in which some letter has none gives the failure that reports exactly the
\* letters without an answer line.
C8_MissingLettersReported ==
  \A k \in 1..Len(outcomes) :
    LET with_line == LettersWithLine(blocks[k]) IN
    /\ outcomes[k].kind = "record" => with_line = Letters
    /\ with_line # Letters =>
         /\ outcomes[k].kind = "AnswerSetMismatch"
         /\ outcomes[k].missing = Letters \ with_line

\* The block starts with a question line
QuestionFirst(u) == u # << >> /\ TextLine(u[1])

\* Question lines, then answer lines with a text, then at most an ANSWER: line
QuestionThenAnswers(u) ==
  /\ QuestionFirst(u)
  /\ \A j \in 2..Len(u) :
       \/ TextLine(u[j]) /\ TextLine(u[j - 1])
       \/ \E letter \in Letters : AnswerLineOf(u[j], letter)
       \/ j = Len(u) /\ AnswerColonStart(u[j])

\* C8 as amended: a record only if every letter has an answer line; a block
\* that starts with a question line and in which some letter has no answer
\* line gives the answer-set failure, whose missing letters are the letters
\* not collected: they include every letter without an answer line, and are
\* exactly those when the block is question lines, answer lines with a text
\* and at most a final ANSWER: line.
C8_MissingLettersOfCollected ==
  \A k \in 1..Len(outcomes) :
    LET with_line == LettersWithLine(blocks[k]) IN
    /\ outcomes[k].kind = "record" => with_line = Letters
    /\ (with_line # Letters /\ QuestionFirst(blocks[k])) =>
         /\ outcomes[k].kind = "AnswerSetMismatch"
         /\ (Letters \ with_line) \subseteq outcomes[k].missing
         /\ outcomes[k].extra = {}
    /\ (with_line # Letters /\ QuestionThenAnswers(blocks[k])) =>
         outcomes[k].missing = Letters \ with_line

C8_Witness ==
  \E k \in 1..Len(outcomes) :
    /\ QuestionThenAnswers(blocks[k])
    /\ LettersWithLine(blocks[k]) = {"A", "B", "C"}
    /\ DeclarationLine(blocks[k][Len(blocks[k])])
    /\ outcomes[k].kind = "AnswerSetMismatch"
    /\ outcomes[k].missing = {"D"}

(***************************************************************************)
(* C9                                                                      *)
(***************************************************************************)

BackToBackWellFormed ==
  /\ ~ source.separated
  /\ \A k \in 1..Len(source.units) : WellFormedUnit(source.units[k])

\* C9 as stated: on an upload without blank lines made of k complete units
\* back to back, split_into_blocks returns the k units as its blocks,
\* whatever the first character of each unit is.
C9_BackToBackAnyFirstCharacter ==
  (pc = "parse" /\ BackToBackWellFormed) => blocks = source.units

\* C9 as amended: it does so when the first character of every unit after
\* the first is none of A, B, C, D, a, b, c.
C9_BackToBackSplit ==
  (/\ pc = "parse"
   /\ BackToBackWellFormed
   /\ \A k \in 2..Len(source.units) :
        strip(source.units[k][1])[1] \notin {"A", "B", "C", "D", "a", "b", "c"}) =>
    blocks = source.units

C9_Witness ==
  /\ pc = "parse"
  /\ BackToBackWellFormed
  /\ Len(source.units) >= 2
  /\ strip(source.units[1][1])[1] = "A"
  /\ strip(source.units[2][1])[1] = "d"
  /\ blocks = source.units

(***************************************************************************)
(* C10                                                                     *)
(***************************************************************************)

\* The records parse_question_block returned, in order
RECURSIVE records_of(_)
records_of(os) ==
  IF os = << >> THEN << >>
  ELSE (IF Head(os).kind = "record" THEN << Head(os).row >> ELSE << >>)
       \o records_of(Tail(os))

\* C10: whatever exporter calls were made, every record of the list is
\* still the 7 fields the parser returned, and no call failed on the shape
\* of the records.
C10_RecordsImmutable ==
  all_parsed =>
    /\ data = records_of(outcomes)
    /\ \A k \in 1..Len(data) : Len(data[k]) = 7
    /\ sheet.kind # "ValueError"

(***************************************************************************)
(* C11                                                                     *)
(***************************************************************************)

\* The block holds a line that, trimmed and lower-cased, starts with "answer:"
HoldsAnswerColon(u) == \E j \in 1..Len(u) : AnswerColonStart(u[j])

\* split_into_blocks is at a blank line and the step takes it
BlankLineStep ==
  /\ pc = "split"
  /\ i <= Len(lines)
  /\ strip(lines[i]) = << >>
  /\ i' = i + 1

\* C11: a blank line closes the current block if and only if that block is
\* not empty and holds a line that starts with "answer:"; otherwise it
\* changes neither the current block nor the closed blocks.
C11_BlankLineTrigger ==
  [][ BlankLineStep =>
        IF current_block # << >> /\ HoldsAnswerColon(current_block)
          THEN blocks' = Append(blocks, current_block) /\ current_block' = << >>
          ELSE blocks' = blocks /\ current_block' = current_block ]_vars

\* A blank line between a question line and its first answer line was taken
\* and split nothing.
C11_Witness ==
  /\ pc = "split"
  /\ i = 3
  /\ Len(lines) >= 3
  /\ TextLine(lines[1])
  /\ strip(lines[2]) = << >>
  /\ MarkerStart(lines[3])
  /\ current_block = << lines[1] >>
  /\ blocks = << >>

(***************************************************************************)
(* C12                                                                     *)
(***************************************************************************)

\* The lines of all the blocks, in order
RECURSIVE Concat(_)
Concat(bs) == IF bs = << >> THEN << >> ELSE Head(bs) \o Concat(Tail(bs))

\* The lines of ls that are not blank, in order
RECURSIVE NonBlank(_)
NonBlank(ls) ==
  IF ls = << >> THEN << >>
  ELSE (IF strip(Head(ls)) # << >> THEN << Head(ls) >> ELSE << >>)
       \o NonBlank(Tail(ls))

\* C12: split_into_blocks loses and reorders nothing: every returned block
\* is non-empty and holds no blank line, the blocks in order hold exactly
\* the non-blank lines of the input in their order (a trailing block without
\* declaration included), and every block but the last holds a declaration
\* line.
C12_SplitLosesNothing ==
  pc = "parse" =>
    /\ \A k \in 1..Len(blocks) :
         /\ blocks[k] # << >>
         /\ \A j \in 1..Len(blocks[k]) : strip(blocks[k][j]) # << >>
    /\ Concat(blocks) = NonBlank(lines)
    /\ \A k \in 1..(Len(blocks) - 1) : HoldsAnswerColon(blocks[k])

\* Two blocks were returned from an input with blank lines, the last one
\* without a declaration.
C12_Witness ==
  /\ pc = "parse"
  /\ Len(blocks) = 2
  /\ \E j \in 1..Len(lines) : strip(lines[j]) = << >>
  /\ ~ HoldsAnswerColon(blocks[2])
  /\ Concat(blocks) = NonBlank(lines)

(***************************************************************************)
(* C13                                                                     *)
(***************************************************************************)

\* The two tests for a declaration line give the same answer on the line
TestsAgree(l) ==
  startswith(lower(strip(l)), answer_colon) <=> ANSWER_DECL_PATTERN(l).matched

\* C13: on every line the segmenter has put in a block, its test for a
\* declaration (the trimmed, lower-cased line starts with "answer:") and the
\* parser's ANSWER_DECL_PATTERN agree; hence the units of an upload whose
\* declarations the parser accepts are each closed by the segmenter.
C13_DeclarationTestsAgree ==
  /\ \A j \in 1..Len(current_block) : TestsAgree(current_block[j])
  /\ \A k \in 1..Len(blocks) : \A j \in 1..Len(blocks[k]) : TestsAgree(blocks[k][j])
  /\ (/\ pc = "parse"
      /\ source.separated
      /\ \A k \in 1..Len(source.units) :
           /\ source.units[k] # << >>
           /\ ANSWER_DECL_PATTERN(source.units[k][Len(source.units[k])]).matched
           /\ \A j \in 1..(Len(source.units[k]) - 1) :
                ~ ANSWER_DECL_PATTERN(source.units[k][j]).matched)
       => blocks = source.units

(***************************************************************************)
(* C14                                                                     *)
(***************************************************************************)

\* The upload is UTF-8 text
Decodable(bytes) == \A k \in 1..Len(bytes) : bytes[k] # invalid_byte

\* read_quiz has been called on the upload
ReadQuizCalled == app.phase \in {"read", "returned", "format"}

\* C14: read_quiz returns None only when decoding the upload raises an
\* error; for every decodable upload it returns the list of its lines, and
\* main does not return early but goes on to format the questions.
C14_ReadQuizReturnsLines ==
  /\ (ReadQuizCalled /\ app.returned.is_None) => ~ Decodable(app.upload)
  /\ (ReadQuizCalled /\ Decodable(app.upload)) =>
       /\ ~ app.returned.is_None
       /\ app.returned.lines = split_line_feed(app.upload)
  /\ (app.phase = "returned") => ~ Decodable(app.upload)

=============================================================================
